---- MODULE Spec2Model ----
(***************************************************************************)
(* A model of svtools' SV reclassifier (reclass_combined.py) and of the    *)
(* VCF-to-BEDPE converter (vcftobedpeconverter.py).                        *)
(*                                                                         *)
(* Three specifications share the module's variables:                      *)
(*   Spec         sv_classify reading a candidate VCF stream line by line  *)
(*   SpecCall     single calls of to_bnd_strings, convert and              *)
(*                simple_breakpoints on one Variant                        *)
(*   SpecOverlap  single calls of reciprocal_overlap                       *)
(*                                                                         *)
(* Text is modelled structurally: an ALT string is the sequence of its     *)
(* tokens, a VCF line is the record of its columns, an INFO column is a    *)
(* function from the keys present to their values.  A raised exception is  *)
(* the name of its Python class.                                           *)
(***************************************************************************)
EXTENDS Integers, Sequences, FiniteSets, TLC

VARIABLES
    pc,         \* where the program is: "run", "done", "crashed", "call", "returned"
    in_header,  \* sv_classify: still reading header lines
    header,     \* sv_classify: the header lines collected
    lines,      \* the lines read from vcf_in so far, in order
    vcf_out,    \* what has been written to standard output, in order
    ae_dict,    \* the annotation index (its features are mutable lists), or None
    exclude,    \* the samples of the exclude file
    var,        \* the Variant object last parsed / passed to the call
    err,        \* the exception that ended the program or the call, "none" if none
    site,       \* the function an exception was raised in / the function called
    ret,        \* the value a call returned
    arg,        \* the arguments of a call, as they were when it was made
    a,          \* reciprocal_overlap's first argument
    b_list,     \* reciprocal_overlap's second argument
    called,     \* the functions sv_classify called for the last data line, in order
    params,     \* params, het_del_fit and hom_del_fit of calc_params; None before
    outf        \* the file of diag_outfile with the rows written; None without one

vars == <<pc, in_header, header, lines, vcf_out, ae_dict, exclude, var, err, site, ret, arg,
          a, b_list, called, params, outf>>

(***************************************************************************)
(* Bounds of the model.                                                    *)
(***************************************************************************)
\* the number of lines of a candidate stream
MaxLines == 2

\* the lines of a candidate stream when a diagnostic file is written
MaxDiagLines == 1

\* the largest coordinate of the intervals given to reciprocal_overlap
MaxCoord == 3
\* the longest b_list given to reciprocal_overlap
MaxFeatures == 2

\* Python's None
None == [none |-> TRUE]
IsNone(x) == DOMAIN x = {"none"}

\* The one element of a singleton.  Only({e(x) : x \in {d}}) is LET x == d IN e(x)
\* with d evaluated once; \E x \in {d} : P(x) is the same for a predicate P.
Only(S) == CHOOSE x \in S : TRUE

(***************************************************************************)
(* The INFO dictionary of a Variant: a Python dict.                        *)
(***************************************************************************)
InfoSet(info, k, v) == [x \in DOMAIN info \cup {k} |-> IF x = k THEN v ELSE info[x]]
InfoDel(info, k) == [x \in DOMAIN info \ {k} |-> info[x]]
Restrict(info, keys) == [x \in DOMAIN info \cap keys |-> info[x]]

\* '%s' of an integer, and int() of such a string
Str(n) == ToString(n)
Coords == {0, 5, 7, 100, 150, 200}
IsIntStr(s) == \E n \in Coords : Str(n) = s
Int_(s) == CHOOSE n \in Coords : Str(n) = s

(***************************************************************************)
(* Variant.get_var_string: the VCF line of the Variant as it now is.       *)
(***************************************************************************)
get_var_string(v, fixed_gts) ==
    [kind |-> "var", var_id |-> v.var_id, chrom |-> v.chrom, pos |-> v.pos,
     alt |-> v.alt, info |-> v.info, gts |-> v.gts, fixed_gts |-> fixed_gts]

(***************************************************************************)
(* to_bnd_strings (reclass_combined.py 207-248).  The result holds the     *)
(* exception raised ("none": it returned), the value returned and the      *)
(* Variant as the call left it (the Variant is modified in place).         *)
(***************************************************************************)
BndReads == {"SVTYPE", "END", "CIEND", "CIPOS", "CIPOS95", "CIEND95"}

bnd_alt_fwd(chrom, p) == <<"N", "[", chrom, ":", Str(p), "[">>
bnd_alt_rev(chrom, p) == <<"]", chrom, ":", Str(p), "]", "N">>

\* mutant: the DEL orientation used for every type
bnd_alt_mate1_M(old_type, chrom, old_end) == bnd_alt_fwd(chrom, old_end)

bnd_alt_mate1(old_type, chrom, old_end) ==
    IF old_type = "DEL" THEN bnd_alt_fwd(chrom, old_end) ELSE bnd_alt_rev(chrom, old_end)

bnd_alt_mate2(old_type, chrom, old_pos) ==
    IF old_type = "DEL" THEN bnd_alt_rev(chrom, old_pos) ELSE bnd_alt_fwd(chrom, old_pos)

\* mutant: the confidence intervals of the second mate are left as they were
bnd_mate2_info_M(info, old_id, old_cipos, old_ciend, old_cipos95, old_ciend95) ==
    InfoSet(InfoSet(info, "MATEID", old_id \o "_1"), "SECONDARY", TRUE)

bnd_mate2_info(info, old_id, old_cipos, old_ciend, old_cipos95, old_ciend95) ==
    InfoSet(InfoSet(InfoSet(InfoSet(InfoSet(InfoSet(info,
        "MATEID", old_id \o "_1"),
        "CIPOS", old_ciend),
        "CIEND", old_cipos),
        "CIPOS95", old_ciend95),
        "CIEND95", old_cipos95),
        "SECONDARY", TRUE)

\* mutant: the first writes come before the reads of lines 209-216
bnd_read_error_M(v) ==
    [exc |-> "KeyError", ret |-> <<>>,
     var |-> [v EXCEPT !.info = InfoSet(InfoSet(@, "SVTYPE", "BND"), "EVENT", v.var_id)]]

\* a KeyError among the reads of lines 209-216: nothing has been assigned yet
bnd_read_error(v) == [exc |-> "KeyError", ret |-> <<>>, var |-> v]

to_bnd_strings(v, fixed_gts) ==
    IF ~(BndReads \subseteq DOMAIN v.info)
    THEN bnd_read_error(v)
    ELSE
    LET old_type == v.info["SVTYPE"]
        old_id == v.var_id
        old_pos == v.pos
        old_end == v.info["END"]
        old_ciend == v.info["CIEND"]
        old_cipos == v.info["CIPOS"]
        old_cipos95 == v.info["CIPOS95"]
        old_ciend95 == v.info["CIEND95"]
        \* for both ends
        v0 == [v EXCEPT !.info = InfoSet(InfoSet(@, "SVTYPE", "BND"), "EVENT", old_id)]
    IN  IF "SVLEN" \notin DOMAIN v0.info
        THEN [exc |-> "KeyError", ret |-> <<>>, var |-> v0]
        ELSE
        LET v1 == [v0 EXCEPT !.info = InfoSet(InfoDel(InfoDel(@, "SVLEN"), "END"),
                                              "MATEID", old_id \o "_2"),
                             !.var_id = old_id \o "_1",
                             !.alt = bnd_alt_mate1(old_type, v.chrom, old_end)]
            var1 == get_var_string(v1, fixed_gts)
            v2 == [v1 EXCEPT !.var_id = old_id \o "_2",
                             !.info = bnd_mate2_info(@, old_id, old_cipos, old_ciend,
                                                     old_cipos95, old_ciend95),
                             !.pos = old_end,
                             !.alt = bnd_alt_mate2(old_type, v.chrom, old_pos)]
            var2 == get_var_string(v2, fixed_gts)
        IN  [exc |-> "none", ret |-> <<var1, var2>>, var |-> v2]

(***************************************************************************)
(* reciprocal_overlap (reclass_combined.py 251-267).  A float is the       *)
(* fraction num/den, den > 0; intervals are <<start, end>>.                *)
(***************************************************************************)
Frac(n, d) == IF d < 0 THEN [num |-> -n, den |-> -d] ELSE [num |-> n, den |-> d]
FracLe(x, y) == x.num * y.den <= y.num * x.den
FracLt(x, y) == x.num * y.den < y.num * x.den
FracEq(x, y) == x.num * y.den = y.num * x.den
FracMin(x, y) == IF FracLt(y, x) THEN y ELSE x
Zero == Frac(0, 1)
One == Frac(1, 1)

min(x, y) == IF y < x THEN y ELSE x
max(x, y) == IF y > x THEN y ELSE x

RECURSIVE SumWidth(_)
SumWidth(bs) == IF bs = <<>> THEN 0 ELSE (Head(bs)[2] - Head(bs)[1]) + SumWidth(Tail(bs))

RECURSIVE SumOverlap(_, _)
SumOverlap(x, bs) ==
    IF bs = <<>> THEN 0
    ELSE (min(x[2], Head(bs)[2]) - max(x[1], Head(bs)[1])) + SumOverlap(x, Tail(bs))

reciprocal_overlap(x, bs) ==
    LET overlap == SumOverlap(x, bs)
        b_aggregate == SumWidth(bs)
    IN  IF x[2] = x[1] THEN Zero
        ELSE IF b_aggregate = 0 THEN Zero
        ELSE FracMin(Frac(overlap, x[2] - x[1]), Frac(overlap, b_aggregate))

(***************************************************************************)
(* VcfToBedpeConverter (vcftobedpeconverter.py).                           *)
(***************************************************************************)
RECURSIVE Join(_)
Join(toks) == IF toks = <<>> THEN "" ELSE Head(toks) \o Join(Tail(toks))

Brackets == {"[", "]"}

\* the regular expression ([][])(.+?)([][]): a bracket, at least one token, the
\* next bracket; then the two asserts, the split at ':' and int()
parse_bnd_alt_string(alt_string) ==
    LET firsts == {i \in 1..Len(alt_string) : alt_string[i] \in Brackets}
        seconds(i1) == {j \in 1..Len(alt_string) : j >= i1 + 2 /\ alt_string[j] \in Brackets}
        Least(S) == CHOOSE i \in S : \A k \in S : i <= k
        colons(region) == {k \in 1..Len(region) : region[k] = ":"}
        split(sep, region, c) ==
            Only({IF ~IsIntStr(breakpoint2) THEN [exc |-> "ValueError", ret |-> <<>>]
                  ELSE [exc |-> "none",
                        ret |-> <<sep, Join(SubSeq(region, 1, c - 1)), Int_(breakpoint2)>>] :
                  breakpoint2 \in {Join(SubSeq(region, c + 1, Len(region)))}})
        matched(i1, i2) ==
            IF alt_string[i1] # alt_string[i2] THEN [exc |-> "AssertionError", ret |-> <<>>]
            ELSE Only({IF Cardinality(colons(region)) # 1
                       THEN [exc |-> "ValueError", ret |-> <<>>]
                       ELSE split(alt_string[i1], region, Only(colons(region))) :
                       region \in {SubSeq(alt_string, i1 + 1, i2 - 1)}})
    IN  IF firsts = {} THEN [exc |-> "AssertionError", ret |-> <<>>]
        ELSE Only({IF seconds(i1) = {} THEN [exc |-> "AssertionError", ret |-> <<>>]
                   ELSE Only({matched(i1, i2) : i2 \in {Least(seconds(i1))}}) :
                   i1 \in {Least(firsts)}})

bnd_breakpoints(vcf_variant) ==
    LET result(p) ==
            LET sep == p.ret[1]
                chrom2 == p.ret[2]
                starts == vcf_variant.alt[1] = sep
                breakpoint1 == IF starts THEN vcf_variant.pos - 1 ELSE vcf_variant.pos
                orientation1 == IF starts THEN "-" ELSE "+"
                breakpoint2 == IF sep = "[" THEN p.ret[3] - 1 ELSE p.ret[3]
                orientation2 == IF sep = "[" THEN "-" ELSE "+"
            IN  IF p.exc # "none" THEN [exc |-> p.exc, ret |-> <<>>, var |-> vcf_variant]
                ELSE [exc |-> "none",
                      ret |-> <<vcf_variant.chrom, breakpoint1, breakpoint1,
                                chrom2, breakpoint2, breakpoint2, orientation1, orientation2>>,
                      var |-> [vcf_variant EXCEPT !.info = InfoSet(@, "END", breakpoint2)]]
    IN  Only({result(p) : p \in {parse_bnd_alt_string(vcf_variant.alt)}})

\* lines 66-84 of simple_breakpoints, once END has been found
simple_breakpoints_strands(vcf_variant) ==
    LET breakpoint1 == vcf_variant.pos
        breakpoint2 == vcf_variant.info["END"]
        has == "STRANDS" \in DOMAIN vcf_variant.info
        strands == vcf_variant.info["STRANDS"]
    IN  IF has /\ Len(strands) < 2
        THEN [exc |-> "ValueError", ret |-> <<>>, var |-> vcf_variant]
        ELSE [exc |-> "none",
              ret |-> <<vcf_variant.chrom, breakpoint1, breakpoint1,
                        vcf_variant.chrom, breakpoint2, breakpoint2,
                        IF has THEN strands[1] ELSE "+", IF has THEN strands[2] ELSE "+">>,
              var |-> vcf_variant]

\* mutant: the KeyError of the END lookup is not caught
simple_breakpoints_M(vcf_variant) ==
    IF "END" \notin DOMAIN vcf_variant.info
    THEN [exc |-> "KeyError", ret |-> <<>>, var |-> vcf_variant]
    ELSE simple_breakpoints_strands(vcf_variant)

simple_breakpoints(vcf_variant) ==
    IF "END" \notin DOMAIN vcf_variant.info
    THEN [exc |-> "ValueError", ret |-> <<>>, var |-> vcf_variant]
    ELSE simple_breakpoints_strands(vcf_variant)

adjust_coordinate(vcf_variant, info_tag, start, end) ==
    IF info_tag \in DOMAIN vcf_variant.info
    THEN <<start + vcf_variant.info[info_tag][1], end + vcf_variant.info[info_tag][2]>>
    ELSE <<start, end>>

\* Variant.get_info_string: the INFO column of the Variant as it now is
get_info_string(v) == [kind |-> "info", info |-> v.info]

\* Bedpe(map(str, [...])): the columns of the BEDPE line
Bedpe(c1, s1, e1, c2, s2, e2, name, o1, o2, sv_type, info_a, info_b) ==
    [c1 |-> c1, s1 |-> Str(s1), e1 |-> Str(e1), c2 |-> c2, s2 |-> Str(s2), e2 |-> Str(e2),
     name |-> name, o1 |-> o1, o2 |-> o2, sv_type |-> sv_type,
     info_a |-> info_a, info_b |-> info_b]

convert(primary_variant, secondary_variant) ==
    LET vcf_variant == IF IsNone(primary_variant) THEN secondary_variant ELSE primary_variant
        swap == IsNone(primary_variant)
        line(sv_type, parsed) ==
            LET t == parsed.ret
                v1 == parsed.var
                p1 == adjust_coordinate(v1, "CIPOS", t[2], t[3])
                p2 == adjust_coordinate(v1, "CIEND", t[5], t[6])
                info_a == IF swap THEN [kind |-> "MISSING"] ELSE get_info_string(v1)
                info_b == IF sv_type # "BND" THEN [kind |-> "."]
                          ELSE IF IsNone(secondary_variant) THEN [kind |-> "MISSING"]
                          ELSE get_info_string(secondary_variant)
                name == IF "EVENT" \in DOMAIN v1.info THEN v1.info["EVENT"] ELSE v1.var_id
            IN  IF parsed.exc # "none" THEN [exc |-> parsed.exc, ret |-> <<>>, var |-> v1]
                ELSE [exc |-> "none",
                      ret |-> IF swap
                              THEN Bedpe(t[4], max(p2[1], 0), max(p2[2], 0),
                                         t[1], max(p1[1], 0), max(p1[2], 0),
                                         name, t[8], t[7], sv_type, info_a, info_b)
                              ELSE Bedpe(t[1], max(p1[1], 0), max(p1[2], 0),
                                         t[4], max(p2[1], 0), max(p2[2], 0),
                                         name, t[7], t[8], sv_type, info_a, info_b),
                      var |-> v1]
    IN  IF "SVTYPE" \notin DOMAIN vcf_variant.info
        THEN [exc |-> "ValueError", ret |-> <<>>, var |-> vcf_variant]
        ELSE Only({line(vcf_variant.info["SVTYPE"], parsed) :
                   parsed \in {IF vcf_variant.info["SVTYPE"] = "BND"
                               THEN bnd_breakpoints(vcf_variant)
                               ELSE simple_breakpoints(vcf_variant)}})

(***************************************************************************)
(* Samples, genotypes and the depth-support tests.  A copy number or an    *)
(* allele balance is held in tenths (CN 1.5 is 15); the FORMAT value '.'   *)
(* of AB is the empty sequence, a value v is <<v>>.                        *)
(***************************************************************************)
\* the number of samples of the candidate VCF
NSamples == 11
Samples == 1..NSamples

\* the gender file: male = 1, female = 2
gender == [s \in Samples |-> IF s % 2 = 1 THEN 1 ELSE 2]

min_pos_samps_for_regression == 10

\* the k-th smallest element of a list
Kth(xs, k) ==
    CHOOSE x \in {xs[i] : i \in 1..Len(xs)} :
        /\ Cardinality({i \in 1..Len(xs) : xs[i] < x}) < k
        /\ Cardinality({i \in 1..Len(xs) : xs[i] <= x}) >= k

\* twice np.median of a non-empty list
Median2(xs) ==
    IF Len(xs) % 2 = 1 THEN 2 * Kth(xs, (Len(xs) + 1) \div 2)
    ELSE Kth(xs, Len(xs) \div 2) + Kth(xs, Len(xs) \div 2 + 1)

Abs(x) == IF x < 0 THEN -x ELSE x

\* four times mad(arr): the median of the distances to the median
Mad4(xs) ==
    Only({Median2([i \in 1..Len(xs) |-> Abs(2 * xs[i] - med2)] \o <<>>) : med2 \in {Median2(xs)}})

\* the copy number of a sample, doubled for a male on a sex chromosome
sample_cn(v, s) ==
    IF (v.chrom = "X" \/ v.chrom = "Y") /\ gender[s] = 1
    THEN v.gts[s].CN * 2 ELSE v.gts[s].CN

RECURSIVE cn_from(_, _, _, _)
\* the copy numbers of the samples s, s+1, ... that are not excluded and have
\* the genotype gt, in the order of var.sample_list
cn_from(v, gt, excl, s) ==
    IF s > NSamples THEN <<>>
    ELSE (IF s \notin excl /\ v.gts[s].GT = gt THEN <<sample_cn(v, s)>> ELSE <<>>)
         \o cn_from(v, gt, excl, s + 1)

\* mutant: a sample count of exactly half the samples tested meets the quorum
low_freq_quorum_M(svtype, tested, cn_median2, cn_mad4) ==
    2 * Cardinality({i \in 1..Len(tested) :
            \E resid2 \in {IF svtype = "DEL" THEN -(2 * tested[i] - cn_median2)
                           ELSE 2 * tested[i] - cn_median2} :
                resid2 > cn_mad4 /\ resid2 > 10})
        >= Len(tested)

\* the tally and the quorum of has_low_freq_depth_support:
\* resid > cn_mad * mad_threshold (2) and resid > absolute_cn_diff (0.5),
\* for more than mad_quorum (0.5) of the samples tested
low_freq_quorum(svtype, tested, cn_median2, cn_mad4) ==
    2 * Cardinality({i \in 1..Len(tested) :
            \E resid2 \in {IF svtype = "DEL" THEN -(2 * tested[i] - cn_median2)
                           ELSE 2 * tested[i] - cn_median2} :
                resid2 > cn_mad4 /\ resid2 > 10})
        > Len(tested)

\* mutant: without a hom-ref sample the baseline is taken to be diploid
has_low_freq_depth_support_M(v, excl) ==
    \E hom_ref_cn \in {cn_from(v, "0/0", excl, 1)} :
    \E tested \in {cn_from(v, "0/1", excl, 1) \o cn_from(v, "1/1", excl, 1)} :
        IF Len(tested) = 0 THEN FALSE
        ELSE IF Len(hom_ref_cn) = 0 THEN low_freq_quorum(v.info["SVTYPE"], tested, 40, 0)
        ELSE low_freq_quorum(v.info["SVTYPE"], tested, Median2(hom_ref_cn), Mad4(hom_ref_cn))

\* has_low_freq_depth_support (reclass_combined.py 133-205), writedir None
has_low_freq_depth_support(v, excl) ==
    \E hom_ref_cn \in {cn_from(v, "0/0", excl, 1)} :
    \E tested \in {cn_from(v, "0/1", excl, 1) \o cn_from(v, "1/1", excl, 1)} :
        IF Len(hom_ref_cn) = 0 \/ Len(tested) = 0 THEN FALSE
        ELSE low_freq_quorum(v.info["SVTYPE"], tested, Median2(hom_ref_cn), Mad4(hom_ref_cn))

RECURSIVE SumTo(_, _)
\* xs[1] + ... + xs[n]
SumTo(xs, n) == IF n = 0 THEN 0 ELSE xs[n] + SumTo(xs, n - 1)

SumSeq(xs) == SumTo(xs, Len(xs))

\* the default thresholds of the command line (reclass_combined.py 38-40)
f_overlap == Frac(9, 10)
slope_threshold == Frac(1, 1)
rsquared_threshold == Frac(2, 10)

RECURSIVE ab_rd_from(_, _)
\* the columns <<ab, rd>> of the array rd whose allele balance is not missing
ab_rd_from(v, s) ==
    IF s > NSamples THEN <<>>
    ELSE (IF v.gts[s].AB # <<>> THEN << <<v.gts[s].AB[1], sample_cn(v, s)>> >> ELSE <<>>)
         \o ab_rd_from(v, s + 1)

\* the verdict on stats.linregress: slope = Sxy/Sxx and r_value^2 =
\* Sxy^2/(Sxx Syy), here with Sxy, Sxx, Syy multiplied by the number of points
regression_support(svtype, sxy, sxx, syy, slope_thr, rsq_thr) ==
    IF FracLt(Frac(sxy * sxy, sxx * syy), rsq_thr) THEN FALSE
    ELSE IF FracLt(IF svtype = "DEL" THEN Frac(-sxy, sxx) ELSE Frac(sxy, sxx), slope_thr)
    THEN FALSE
    ELSE TRUE

\* mutant: only the allele balances are required to vary
non_uniform_M(rd) ==
    Cardinality({rd[i][1] : i \in 1..Len(rd)}) > 1

\* the test of non-uniformity in genotype and read depth (line 101)
non_uniform(rd) ==
    /\ Cardinality({rd[i][1] : i \in 1..Len(rd)}) > 1
    /\ Cardinality({rd[i][2] : i \in 1..Len(rd)}) > 1

\* stats.linregress is reached
calls_linregress(v) ==
    "CN" \in v.active_formats /\ non_uniform(ab_rd_from(v, 1))

\* has_high_freq_depth_support (reclass_combined.py 68-130), writedir None
has_high_freq_depth_support(v, excl, slope_thr, rsq_thr) ==
    IF "CN" \notin v.active_formats THEN FALSE
    ELSE \E rd \in {ab_rd_from(v, 1)} :
         \E n \in {Len(rd)} :
         \E sx \in {SumSeq([i \in 1..n |-> rd[i][1]])} :
         \E sy \in {SumSeq([i \in 1..n |-> rd[i][2]])} :
            IF ~non_uniform(rd)
            THEN FALSE
            ELSE regression_support(v.info["SVTYPE"],
                    n * SumSeq([i \in 1..n |-> rd[i][1] * rd[i][2]]) - sx * sy,
                    n * SumSeq([i \in 1..n |-> rd[i][1] * rd[i][1]]) - sx * sx,
                    n * SumSeq([i \in 1..n |-> rd[i][2] * rd[i][2]]) - sy * sy,
                    slope_thr, rsq_thr)

\* has_cn_support_by_nb (reclass_combined.py 440-479): the lookups that can raise.
\* Its boolean result, a comparison of Gaussian likelihoods under the fitted
\* model, goes only to the diagnostic file and is left out here.
has_cn_support_by_nb_exc(v, excl) ==
    IF Samples \subseteq excl THEN "none"
    ELSE IF "SVLEN" \notin DOMAIN v.info \/ "AF" \notin DOMAIN v.info THEN "KeyError"
    ELSE "none"

(***************************************************************************)
(* The annotation index.  ae_dict maps a chromosome to the list of its     *)
(* features <<start, end, class>>; a class is the token sequence of its    *)
(* text, '|' being a token.  The features are Python lists, shared by      *)
(* reference between ae_dict and the lists built from it, so a function is *)
(* given the chromosome's features fs and positions in fs, and returns fs  *)
(* as its assignments leave it.                                            *)
(***************************************************************************)
RECURSIVE InsertByEnd(_, _, _)
\* sorted(bed_list, key=itemgetter(1)): a stable sort on the end coordinate
InsertByEnd(fs, i, sorted) ==
    IF sorted = <<>> THEN <<i>>
    ELSE IF fs[i][2] < fs[Head(sorted)][2] THEN <<i>> \o sorted
    ELSE <<Head(sorted)>> \o InsertByEnd(fs, i, Tail(sorted))

RECURSIVE SortByEnd(_, _)
SortByEnd(fs, idx) ==
    IF idx = <<>> THEN <<>>
    ELSE InsertByEnd(fs, idx[Len(idx)], SortByEnd(fs, SubSeq(idx, 1, Len(idx) - 1)))

RECURSIVE collapse_loop(_, _, _, _, _)
\* the while loop of collapse_bed_records: i is 1-based, curr the position in fs
\* of curr_rec
collapse_loop(fs, srt, i, curr, collapsed) ==
    IF i = Len(srt) THEN [collapsed |-> Append(collapsed, fs[curr]), fs |-> fs]
    ELSE LET next_rec == fs[srt[i + 1]]
         IN  IF fs[curr][2] >= next_rec[1]
             THEN collapse_loop([fs EXCEPT ![curr][2] = next_rec[2]], srt, i + 1, curr,
                                collapsed)
             ELSE collapse_loop(fs, srt, i + 1, srt[i + 1], Append(collapsed, fs[curr]))

\* collapse_bed_records (reclass_combined.py 269-297) on the non-empty list of
\* the features of fs at the positions bed_list
collapse_bed_records(fs, bed_list) ==
    LET bed_list_sorted == SortByEnd(fs, bed_list)
    IN  collapse_loop(fs, bed_list_sorted, 1, bed_list_sorted[1], <<>>)

RECURSIVE hits_from(_, _, _, _)
\* the loop of annotation_intersect over the features of the chromosome: it
\* stops at the first feature that starts at or after var_end
hits_from(fs, i, var_start, var_end) ==
    IF i > Len(fs) THEN <<>>
    ELSE IF fs[i][1] < var_end
         THEN (IF fs[i][2] > var_start THEN <<i>> ELSE <<>>)
              \o hits_from(fs, i + 1, var_start, var_end)
         ELSE <<>>

RECURSIVE collapse_classes(_, _, _, _)
\* the loop over class_overlap: every class is collapsed, and scored on what the
\* collapse returned; the assignments to the features add up
collapse_classes(fs, hits, classes, interval) ==
    IF classes = {} THEN [fs |-> fs, score |-> <<>>]
    ELSE Only({
           Only({[fs |-> rest.fs,
                  score |-> <<[class |-> me_class,
                               frac |-> reciprocal_overlap(interval,
                                   [k \in 1..Len(col.collapsed) |->
                                       <<col.collapsed[k][1], col.collapsed[k][2]>>])]>>
                            \o rest.score] :
                 rest \in {collapse_classes(col.fs, hits, classes \ {me_class}, interval)}}) :
           me_class \in {CHOOSE c \in classes : TRUE},
           col \in {collapse_bed_records(fs,
                       SelectSeq(hits, LAMBDA i : fs[i][3] = (CHOOSE c \in classes : TRUE)))}})

\* the end of annotation_intersect: the class of the highest overlap, if that
\* overlap is positive and reaches the threshold
best_class(score, threshold) ==
    LET positive == {k \in 1..Len(score) : FracLt(Zero, score[k].frac)}
        best == CHOOSE k \in positive :
                    \A m \in positive : FracLe(score[m].frac, score[k].frac)
    IN  IF positive # {} /\ FracLe(threshold, score[best].frac)
        THEN [class |-> score[best].class] ELSE None

\* annotation_intersect (reclass_combined.py 299-339).  ret is the class
\* returned or None.  The classes of a dict are visited in an order the
\* program does not fix, and the first class of the highest overlap wins.
annotation_intersect(v, ae, threshold) ==
    IF v.chrom \notin DOMAIN ae THEN [exc |-> "none", ret |-> None, ae |-> ae]
    ELSE IF "END" \notin DOMAIN v.info THEN [exc |-> "KeyError", ret |-> None, ae |-> ae]
    ELSE Only({
           Only({[exc |-> "none", ret |-> best_class(done.score, threshold),
                  ae |-> [ae EXCEPT ![v.chrom] = done.fs]] :
                 done \in {collapse_classes(fs, hits, {fs[hits[i]][3] : i \in 1..Len(hits)},
                                            <<v.pos, v.info["END"]>>)}}) :
           fs \in {ae[v.chrom]},
           hits \in {hits_from(ae[v.chrom], 1, v.pos, v.info["END"])}})

RECURSIVE Split(_, _)
\* str.split(sep): the token sequences between the separator tokens
Split(toks, sep) ==
    LET seps == {i \in 1..Len(toks) : toks[i] = sep}
        i1 == CHOOSE i \in seps : \A k \in seps : i <= k
    IN  IF seps = {} THEN <<toks>>
        ELSE <<SubSeq(toks, 1, i1 - 1)>> \o Split(SubSeq(toks, i1 + 1, Len(toks)), sep)

\* s.startswith(prefix), for a prefix that is one token
StartsWith(toks, prefix) == toks # <<>> /\ toks[1] = prefix

\* the MEI rewrite of sv_classify (reclass_combined.py 538-542)
mei_rewrite(v, aeclass) ==
    LET parts == Split(aeclass, "|")
        me == StartsWith(aeclass, "SINE") \/ StartsWith(aeclass, "LINE")
              \/ StartsWith(parts[3], "SVA")
        named == IF me THEN <<"ME:">> \o aeclass ELSE aeclass
    IN  IF ~StartsWith(aeclass, "SINE") /\ ~StartsWith(aeclass, "LINE") /\ Len(parts) < 3
        THEN [exc |-> "IndexError", var |-> v]
        ELSE [exc |-> "none",
              var |-> [v EXCEPT !.alt = <<"<", "DEL", ":">> \o named \o <<">">>,
                                !.info = InfoSet(@, "SVTYPE", "MEI")]]

(***************************************************************************)
(* The lines of a candidate VCF.                                           *)
(***************************************************************************)
InfoKeys == {"SVTYPE", "END", "SVLEN", "CIPOS", "CIEND", "CIPOS95", "CIEND95", "AF", "STRANDS"}

FullInfo(svtype, pos, end) ==
    [k \in InfoKeys |->
        CASE k = "SVTYPE" -> svtype
          [] k = "END" -> end
          [] k = "SVLEN" -> IF svtype = "DEL" THEN pos - end ELSE end - pos
          [] k = "CIPOS" -> <<-10, 10>>
          [] k = "CIEND" -> <<-20, 20>>
          [] k = "CIPOS95" -> <<-1, 1>>
          [] k = "CIEND95" -> <<-2, 2>>
          [] k = "AF" -> "0.1"
          [] k = "STRANDS" -> IF svtype = "DEL" THEN <<"+", "-", ":", "4">>
                              ELSE <<"-", "+", ":", "4">>]

\* k samples carry the variant (odd samples 0/1, even samples 1/1) with a copy
\* number d (0/1) or 2d (1/1) away from 2.0; the others have the genotype base
Genotypes(p) ==
    [s \in Samples |->
        IF s <= p.k
        THEN IF s % 2 = 1 THEN [GT |-> "0/1", CN |-> 20 + p.d, AB |-> <<5>>]
             ELSE [GT |-> "1/1", CN |-> 20 + 2 * p.d, AB |-> <<10>>]
        ELSE [GT |-> p.base, CN |-> 20, AB |-> IF p.base = "./." THEN <<>> ELSE <<0>>]]

NoCarrier == [k |-> 0, d |-> 0, base |-> "0/0"]
NoCall == [k |-> 0, d |-> 0, base |-> "./."]
Carriers(k, d) == [k |-> k, d |-> d, base |-> "0/0"]
Profiles ==
    {NoCarrier, NoCall}
    \cup {Carriers(k, d) : k \in {1, min_pos_samps_for_regression}, d \in {-10, 0, 10}}

SymbolicAlt(svtype) == <<"<", svtype, ">">>

\* line n of the stream; svtype "None": the INFO column has no SVTYPE key
Line(n, chrom, svtype, span, missing, p) ==
    [kind |-> "data", id |-> Str(n), chrom |-> chrom, pos |-> span[1],
     alt |-> IF svtype = "BND" THEN bnd_alt_fwd(chrom, span[2]) ELSE SymbolicAlt(svtype),
     info |-> Restrict(FullInfo(svtype, span[1], span[2]),
                       InfoKeys \ (missing \cup (IF svtype = "None" THEN {"SVTYPE"} ELSE {}))),
     gts |-> Genotypes(p)]

HeaderLine(n) == [kind |-> "header", id |-> Str(n)]

Wide == <<100, 200>>
Narrow == <<100, 150>>
OptionalKeys == {"END", "SVLEN", "CIPOS", "CIEND", "CIPOS95", "CIEND95", "AF"}

\* The data lines a stream is made of: lines that are not DEL or DUP; DEL and
\* DUP lines on an autosome with every genotype profile, over both annotated
\* spans; DEL and DUP lines on the sex chromosomes; lines lacking one INFO key;
\* DEL lines that no annotated class covers to f_overlap.
DataLines(n) ==
    {Line(n, "1", "None", Wide, {}, Carriers(1, 0)), Line(n, "X", "BND", Wide, {}, Carriers(1, 0))}
    \cup {Line(n, "1", "DEL", Wide, {}, p) :
            p \in Profiles \ {Carriers(1, 10), Carriers(min_pos_samps_for_regression, 10)}}
    \cup {Line(n, "1", "DUP", Wide, {}, p) : p \in Profiles \ {NoCall, Carriers(1, 0)}}
    \cup {Line(n, "1", "DEL", Narrow, {}, p) : p \in {NoCarrier, Carriers(1, -10)}}
    \cup {Line(n, "X", t, Wide, {}, Carriers(1, -10)) : t \in {"DEL", "DUP"}}
    \cup {Line(n, "Y", "DEL", Wide, {}, Carriers(1, -10))}
    \cup {Line(n, "1", "DUP", Wide, {k}, Carriers(1, 0)) : k \in OptionalKeys}
    \cup {Line(n, "1", "DEL", Wide, {"END"}, Carriers(1, 0))}
    \cup {Line(n, "X", "DEL", Narrow, {}, Carriers(1, -10)),
          Line(n, "2", "DEL", Wide, {}, NoCarrier)}

\* Variant(v, vcf, True): the Variant object of a data line
Variant(line) ==
    [var_id |-> line.id, chrom |-> line.chrom, pos |-> line.pos, alt |-> line.alt,
     info |-> line.info, gts |-> line.gts, active_formats |-> {"GT", "CN", "AB"}]

\* the annotation files of the model
Alu == <<"SINE", "|", "Alu", "|", "AluY">>
Sva == <<"Retroposon", "|", "SVA", "|", "SVA", "_D">>
Dna == <<"DNA">>
Annotations ==
    [c \in {"1", "X", "Y"} |->
        CASE c = "1" -> << <<100, 150, Alu>>, <<150, 200, Alu>> >>
          [] c = "X" -> << <<100, 200, Sva>> >>
          [] c = "Y" -> << <<100, 200, Dna>> >>]

(***************************************************************************)
(* calc_params (reclass_combined.py 361-428): the rows of the data frame   *)
(* of one sample's DEL records.  Copy numbers are in hundredths and are    *)
(* those whose log2r, log2((CN + 0.1) / 2), is a whole number; quantiles   *)
(* are in thousandths of a log2r unit.                                     *)
(***************************************************************************)
MaxGroup == 4

\* log2((CN + epsilon) / 2) of line 396
log2r(cn) ==
    Only({k \in -4..4 : IF k >= 0 THEN cn + 10 = 200 * 2^k ELSE (cn + 10) * 2^(-k) = 200})

CN_rec(svlen, gt, cn) == [svlen |-> svlen, GT |-> gt, CN |-> cn, log2r |-> log2r(cn)]

\* np.percentile(xx, q / 10), linear interpolation between the order
\* statistics on either side of position (q / 1000) * (n - 1)
np_percentile(xx, q) ==
    \* the position in thousandths, then its whole part lo and the rest
    LET value(lo, rest) ==
            1000 * Kth(xx, lo + 1)
            + rest * (Kth(xx, min(lo + 2, Len(xx))) - Kth(xx, lo + 1))
    IN  Only({value(position \div 1000, position % 1000) :
                position \in {q * (Len(xx) - 1)}})

\* mutant: the low quantile is the minimum
lowQuantile_M(xx) == np_percentile(xx, 0)

lowQuantile(xx) == np_percentile(xx, 25)

highQuantile(xx) == np_percentile(xx, 975)

\* the log2r column of the rows of df with genotype gt: a group of
\* df.groupby(['sample', 'svtype', 'GT'])
group_log2r(df, gt) ==
    Only({[i \in 1..Len(g) |-> g[i].log2r] \o <<>> :
            g \in {SelectSeq(df, LAMBDA row : row.GT = gt)}})

\* lines 401-403: the rows within the quantiles of their group
trim(df) ==
    LET kept(q_low, q_high) ==
            SelectSeq(df, LAMBDA row :
                /\ 1000 * row.log2r >= q_low[row.GT]
                /\ 1000 * row.log2r <= q_high[row.GT])
    IN  Only({kept(q_low, q_high) :
                q_low \in {[gt \in {df[i].GT : i \in 1..Len(df)} |->
                                lowQuantile(group_log2r(df, gt))]},
                q_high \in {[gt \in {df[i].GT : i \in 1..Len(df)} |->
                                highQuantile(group_log2r(df, gt))]}})

NaN == [nan |-> TRUE]

\* np.mean of a list: nan for the empty list
np_mean(xs) == IF Len(xs) = 0 THEN NaN ELSE Frac(SumSeq(xs), Len(xs))

\* x - m for a whole number x: nan when m is
minus_mean(x, m) == IF m = NaN THEN NaN ELSE Frac(x * m.den - m.num, m.den)

\* lines 407-410: the DEL rows of genotype gt shorter than 1000 bp, each with
\* its offset from the mean log2r of the rows of that genotype longer than
\* 1000 bp
small_dels(df, gt) ==
    LET with_offset(small, mean) ==
            [i \in 1..Len(small) |->
                [row |-> small[i], offset |-> minus_mean(small[i].log2r, mean)]] \o <<>>
    IN  Only({with_offset(small, np_mean([i \in 1..Len(large) |-> large[i].log2r] \o <<>>)) :
                small \in {SelectSeq(df, LAMBDA row : row.GT = gt /\ row.svlen < 1000)},
                large \in {SelectSeq(df, LAMBDA row : row.GT = gt /\ row.svlen > 1000)}})

\* smf.ols('offset~log_len', small).fit(): the fit is a function of the
\* (log_len, offset) points it is given, which stand for it here; log_len is
\* given by svlen
ols_fit(small) ==
    [i \in 1..Len(small) |-> [svlen |-> small[i].row.svlen, offset |-> small[i].offset]] \o <<>>

\* calc_params from the trimming on: the two fits, and params, the mean and
\* std of log2r_adj by genotype, stood for by the rows they are taken over
\* (df1 of line 421 and then the small deletions, as line 423 appends them)
calc_params(tSet) ==
    LET model(df, small_hom_dels, small_het_dels) ==
            [params |->
                [gt \in {"0/0", "0/1", "1/1"} |->
                    SelectSeq(df, LAMBDA row : row.GT = gt /\ (gt = "0/0" \/ row.svlen >= 1000))
                    \o SelectSeq([i \in 1..Len(small_hom_dels) |-> small_hom_dels[i].row] \o
                                 [i \in 1..Len(small_het_dels) |-> small_het_dels[i].row],
                                 LAMBDA row : row.GT = gt)],
             het_del_fit |-> ols_fit(small_het_dels),
             hom_del_fit |-> ols_fit(small_hom_dels)]
    IN  Only({model(df, small_dels(df, "1/1"), small_dels(df, "0/1")) : df \in {trim(tSet)}})

\* the training sets of the model: het and hom-alt DEL records of one sample,
\* below, at and above 1000 bp
SmallTraining ==
    <<CN_rec(500, "0/1", 90), CN_rec(2000, "0/1", 90), CN_rec(2000, "1/1", 40)>>

TrainingSets ==
    {SmallTraining,
     <<CN_rec(500, "1/1", 40), CN_rec(1000, "1/1", 40), CN_rec(2000, "0/1", 90)>>,
     <<CN_rec(2000, "0/1", 90), CN_rec(2000, "0/1", 190), CN_rec(2000, "0/1", 40),
       CN_rec(500, "0/1", 90)>>}

(***************************************************************************)
(* sv_classify (reclass_combined.py 485-590): what one data line does.     *)
(* branch names the path taken, out the items written for the line, ae     *)
(* the annotation index and var the Variant as the path leaves them.       *)
(***************************************************************************)
RawLine(line) == [kind |-> "line", text |-> line]

Outcome(branch, out, ae, v, exc, where, calls) ==
    [branch |-> branch, out |-> out, ae |-> ae, var |-> v, exc |-> exc, site |-> where,
     calls |-> calls]

\* the rewrite as two breakends (reclass_combined.py 573-574, 580-581)
write_bnd(branch, v, ae, calls) ==
    Only({IF b.exc # "none"
          THEN Outcome("crash", <<>>, ae, b.var, b.exc, "to_bnd_strings",
                       Append(calls, "to_bnd_strings"))
          ELSE Outcome(branch, <<b.ret[1], b.ret[2]>>, ae, b.var, "none", "",
                       Append(calls, "to_bnd_strings")) :
          b \in {to_bnd_strings(v, TRUE)}})

num_pos_samps(v, excl) ==
    Cardinality({s \in Samples \ excl : v.gts[s].GT \notin {"./.", "0/0"}})

\* mutant: a record the naive-Bayes test supports is kept as well
low_freq_support_M(v, excl, nb_support) ==
    nb_support \/ has_low_freq_depth_support(v, excl)

\* the flag low_freq_support after lines 566-570, nb_support being what
\* has_cn_support_by_nb returned
low_freq_support(v, excl, nb_support) ==
    has_low_freq_depth_support(v, excl)

\* mutant: the prediction of the small deletions uses up the fit
model_after_nb_M(model, v) ==
    IF v.info["SVTYPE"] = "DEL" THEN [model EXCEPT !.het_del_fit = <<>>] ELSE model

\* has_cn_support_by_nb (reclass_combined.py 440-479): the model as the call
\* leaves it; the frames it builds from the model are its own
model_after_nb(model, v) == model

\* mutant: a record with exactly min_pos_samps_for_regression positive samples
\* is given to the low-frequency test
depth_test_branch_M(line, v, ae, excl, calls, nb) ==
    IF has_cn_support_by_nb_exc(v, excl) # "none"
    THEN Outcome("crash", <<>>, ae, v, has_cn_support_by_nb_exc(v, excl),
                 "has_cn_support_by_nb", Append(calls, "has_cn_support_by_nb"))
    ELSE IF num_pos_samps(v, excl) <= min_pos_samps_for_regression
    THEN IF low_freq_support(v, excl, nb)
         THEN Outcome("low_keep", <<RawLine(line)>>, ae, v, "none", "",
                      calls \o <<"has_cn_support_by_nb", "has_low_freq_depth_support">>)
         ELSE write_bnd("low_bnd", v, ae,
                      calls \o <<"has_cn_support_by_nb", "has_low_freq_depth_support">>)
    ELSE IF has_high_freq_depth_support(v, excl, slope_threshold, rsquared_threshold)
         THEN Outcome("high_keep", <<RawLine(line)>>, ae, v, "none", "",
                      calls \o <<"has_cn_support_by_nb", "has_high_freq_depth_support">>)
         ELSE write_bnd("high_bnd", v, ae,
                      calls \o <<"has_cn_support_by_nb", "has_high_freq_depth_support">>)

\* reclass_combined.py 563-581: a record with a positive sample
depth_test_branch(line, v, ae, excl, calls, nb) ==
    IF has_cn_support_by_nb_exc(v, excl) # "none"
    THEN Outcome("crash", <<>>, ae, v, has_cn_support_by_nb_exc(v, excl),
                 "has_cn_support_by_nb", Append(calls, "has_cn_support_by_nb"))
    ELSE IF num_pos_samps(v, excl) < min_pos_samps_for_regression
    THEN IF low_freq_support(v, excl, nb)
         THEN Outcome("low_keep", <<RawLine(line)>>, ae, v, "none", "",
                      calls \o <<"has_cn_support_by_nb", "has_low_freq_depth_support">>)
         ELSE write_bnd("low_bnd", v, ae,
                      calls \o <<"has_cn_support_by_nb", "has_low_freq_depth_support">>)
    ELSE IF has_high_freq_depth_support(v, excl, slope_threshold, rsquared_threshold)
         THEN Outcome("high_keep", <<RawLine(line)>>, ae, v, "none", "",
                      calls \o <<"has_cn_support_by_nb", "has_high_freq_depth_support">>)
         ELSE write_bnd("high_bnd", v, ae,
                      calls \o <<"has_cn_support_by_nb", "has_high_freq_depth_support">>)

\* mutant: a record without a positive sample is tested like the others
depth_branch_M(line, v, ae, excl, calls, nb) ==
    depth_test_branch(line, v, ae, excl, calls, nb)

\* reclass_combined.py 551-560
depth_branch(line, v, ae, excl, calls, nb) ==
    IF num_pos_samps(v, excl) = 0
    THEN Outcome("nopos", <<RawLine(line)>>, ae, v, "none", "", calls)
    ELSE depth_test_branch(line, v, ae, excl, calls, nb)

\* mutant: only chromosome X is passed through
sex_branch_M(line, v, ae, excl, calls, nb) ==
    IF v.chrom = "X"
    THEN Outcome("sex", <<RawLine(line)>>, ae, v, "none", "", calls)
    ELSE depth_branch(line, v, ae, excl, calls, nb)

\* reclass_combined.py 546-549
sex_branch(line, v, ae, excl, calls, nb) ==
    IF v.chrom = "X" \/ v.chrom = "Y"
    THEN Outcome("sex", <<RawLine(line)>>, ae, v, "none", "", calls)
    ELSE depth_branch(line, v, ae, excl, calls, nb)

\* the MEI branch once annotation_intersect has returned hit
mei_write(line, v, hit, excl, nb) ==
    IF hit.exc # "none"
    THEN Outcome("crash", <<>>, hit.ae, v, hit.exc, "annotation_intersect",
                 <<"annotation_intersect">>)
    ELSE IF IsNone(hit.ret) THEN sex_branch(line, v, hit.ae, excl, <<"annotation_intersect">>, nb)
    ELSE Only({IF m.exc # "none"
               THEN Outcome("crash", <<>>, hit.ae, m.var, m.exc, "sv_classify",
                            <<"annotation_intersect">>)
               ELSE Outcome("mei", <<get_var_string(m.var, TRUE)>>, hit.ae, m.var, "none", "",
                            <<"annotation_intersect">>) :
               m \in {mei_rewrite(v, hit.ret.class)}})

\* reclass_combined.py 534-543
mei_branch(line, v, ae, excl, nb) ==
    IF ~IsNone(ae) /\ v.info["SVTYPE"] \in {"DEL"}
    THEN Only({mei_write(line, v, hit, excl, nb) : hit \in {annotation_intersect(v, ae, f_overlap)}})
    ELSE sex_branch(line, v, ae, excl, <<>>, nb)

\* mutant: a line that is neither a DEL nor a DUP is dropped
sv_classify_line_M(line, ae, excl, old_var, nb) ==
    IF (IF "SVTYPE" \in DOMAIN line.info THEN line.info["SVTYPE"] ELSE "None")
            \notin {"DEL", "DUP"}
    THEN Outcome("skip", <<>>, ae, old_var, "none", "", <<>>)
    ELSE Only({mei_branch(line, v, ae, excl, nb) : v \in {Variant(line)}})

\* the body of the loop of sv_classify for a line after the header
sv_classify_line(line, ae, excl, old_var, nb) ==
    IF (IF "SVTYPE" \in DOMAIN line.info THEN line.info["SVTYPE"] ELSE "None")
            \notin {"DEL", "DUP"}
    THEN Outcome("skip", <<RawLine(line)>>, ae, old_var, "none", "", <<>>)
    ELSE Only({mei_branch(line, v, ae, excl, nb) : v \in {Variant(line)}})

\* vcf.get_header(): the header text rebuilt from the header lines added
get_header(hdr) == [kind |-> "header", lines |-> hdr]

(***************************************************************************)
(* Spec: sv_classify on a candidate stream.  The stream is a VCF: its      *)
(* header lines come first.                                                *)
(***************************************************************************)
Init ==
    /\ pc = "run"
    /\ in_header = TRUE
    /\ header = <<>>
    /\ lines = <<>>
    /\ vcf_out = <<>>
    /\ ae_dict \in {None, Annotations}
    /\ exclude \in {{}, {1}}
    /\ var = None
    /\ err = "none"
    /\ site = ""
    /\ ret = <<>>
    /\ arg = <<>>
    /\ a = <<0, 0>>
    /\ b_list = <<>>
    /\ called = <<>>
    /\ params = calc_params(SmallTraining)
    /\ outf = None

\* the number of lines of a stream: fewer when a diagnostic file is written
LineBound == IF IsNone(outf) THEN MaxLines ELSE MaxDiagLines

ReadHeaderLine ==
    /\ pc = "run"
    /\ in_header
    /\ Len(lines) < LineBound
    /\ header' = Append(header, HeaderLine(Len(lines) + 1))
    /\ lines' = Append(lines, HeaderLine(Len(lines) + 1))
    /\ UNCHANGED <<params, outf, pc, in_header, vcf_out, ae_dict, exclude, var, err, site, ret, arg, a,
                   b_list, called>>

\* the row of the diagnostic file (lines 559-561 and 583-584) of a record that
\* reaches the end of the loop body; nb is what has_cn_support_by_nb returned
diag_row(line, r, excl, nb) ==
    [var_id |-> r.var.var_id, svtype |-> line.info["SVTYPE"],
     num_pos_samps |-> num_pos_samps(Variant(line), excl),
     nb_support |-> (r.branch # "nopos" /\ nb),
     high_freq_support |-> (r.branch = "high_keep"),
     low_freq_support |-> (r.branch = "low_keep")]

\* outf after the loop body: the records that are written with continue, and
\* those the program dies on, leave no row
write_diag(f, line, r, excl, nb) ==
    IF IsNone(f) \/ r.branch \notin {"nopos", "low_keep", "low_bnd", "high_keep", "high_bnd"}
    THEN f ELSE [rows |-> Append(f.rows, diag_row(line, r, excl, nb))]

\* a data line that takes the path named branch.  nb is what
\* has_cn_support_by_nb returns if it is called; without a diagnostic file
\* nb_support is never read (line 583) and one value stands for both.
ReadDataLine(branch) ==
    /\ Len(lines) < LineBound
    /\ \E line \in DataLines(Len(lines) + 1) :
       \E nb \in (IF IsNone(outf) THEN {FALSE} ELSE BOOLEAN) :
        \E r \in {sv_classify_line(line, ae_dict, exclude, var, nb)} :
            /\ r.branch = branch
            /\ lines' = Append(lines, line)
            /\ in_header' = FALSE
            /\ vcf_out' = vcf_out \o (IF in_header THEN <<get_header(header)>> ELSE <<>>)
                                  \o r.out
            /\ ae_dict' = r.ae
            /\ var' = r.var
            /\ err' = r.exc
            /\ site' = r.site
            /\ called' = r.calls
            /\ params' = IF \E k \in 1..Len(r.calls) : r.calls[k] = "has_cn_support_by_nb"
                         THEN model_after_nb(params, Variant(line)) ELSE params
            /\ outf' = write_diag(outf, line, r, exclude, nb)
            /\ pc' = IF branch = "crash" THEN "crashed" ELSE "run"
    /\ UNCHANGED <<header, exclude, ret, arg, a, b_list>>

SkipLine == pc = "run" /\ ReadDataLine("skip")
MeiLine == pc = "run" /\ ReadDataLine("mei")
SexChromLine == pc = "run" /\ ReadDataLine("sex")
NoPosLine == pc = "run" /\ ReadDataLine("nopos")
LowFreqKeep == pc = "run" /\ ReadDataLine("low_keep")
LowFreqBnd == pc = "run" /\ ReadDataLine("low_bnd")
HighFreqKeep == pc = "run" /\ ReadDataLine("high_keep")
HighFreqBnd == pc = "run" /\ ReadDataLine("high_bnd")
Raise == pc = "run" /\ ReadDataLine("crash")

\* the end of vcf_in: the loop ends and vcf_out is closed
EndOfInput ==
    /\ pc = "run"
    /\ pc' = "done"
    /\ UNCHANGED <<params, outf, in_header, header, lines, vcf_out, ae_dict, exclude, var, err, site, ret,
                   arg, a, b_list, called>>

Next ==
    \/ ReadHeaderLine
    \/ SkipLine
    \/ MeiLine
    \/ SexChromLine
    \/ NoPosLine
    \/ LowFreqKeep
    \/ LowFreqBnd
    \/ HighFreqKeep
    \/ HighFreqBnd
    \/ Raise
    \/ EndOfInput

Spec == Init /\ [][Next]_vars

(***************************************************************************)
(* SpecMain: main (reclass_combined.py 595-644) with a diagnostic file:    *)
(* calc_params on the training set, then sv_classify on a candidate stream *)
(* of at most MaxDiagLines lines.  arg is the training set.                *)
(***************************************************************************)
InitMain ==
    /\ pc = "start"
    /\ arg \in TrainingSets
    /\ params = None
    /\ outf = [rows |-> <<>>]
    /\ in_header = TRUE
    /\ header = <<>>
    /\ lines = <<>>
    /\ vcf_out = <<>>
    /\ ae_dict \in {None, Annotations}
    /\ exclude \in {{}, {1}}
    /\ var = None
    /\ err = "none"
    /\ site = ""
    /\ ret = <<>>
    /\ a = <<0, 0>>
    /\ b_list = <<>>
    /\ called = <<>>

\* line 622
CalcParams ==
    /\ pc = "start"
    /\ pc' = "run"
    /\ params' = calc_params(arg)
    /\ UNCHANGED <<outf, in_header, header, lines, vcf_out, ae_dict, exclude, var, err, site,
                   ret, arg, a, b_list, called>>

NextMain ==
    \/ CalcParams
    \/ ReadHeaderLine
    \/ SkipLine
    \/ MeiLine
    \/ SexChromLine
    \/ NoPosLine
    \/ LowFreqKeep
    \/ LowFreqBnd
    \/ HighFreqKeep
    \/ HighFreqBnd
    \/ Raise
    \/ EndOfInput

SpecMain == InitMain /\ [][NextMain]_vars

(***************************************************************************)
(* SpecCall: one call of to_bnd_strings, of VcfToBedpeConverter.convert or *)
(* of simple_breakpoints on a Variant whose INFO column lacks any subset   *)
(* of the keys the three functions read.                                   *)
(***************************************************************************)
CallKeys == {"SVTYPE", "END", "SVLEN", "CIPOS", "CIEND", "CIPOS95", "CIEND95", "STRANDS"}

\* the ALT strings of the breakend Variants given to convert
BndAlts ==
    {bnd_alt_fwd("2", 200), bnd_alt_rev("2", 200), <<"N">>,
     <<"N", "[", "2", ":", "200", "]">>, <<"N", "[", "2", "200", "[">>}

CallVariants ==
    {Variant(Line(1, "1", t, Wide, missing, Carriers(1, 0))) :
        t \in {"DEL", "DUP", "BND"}, missing \in SUBSET CallKeys}
    \cup {[Variant(Line(1, "1", "BND", Wide, missing, Carriers(1, 0))) EXCEPT !.alt = alt] :
        alt \in BndAlts, missing \in SUBSET {"END"}}

\* the mate of a breakend given to convert
Mate == Variant(Line(2, "2", "BND", <<200, 100>>, {}, Carriers(1, 0)))

InitCall ==
    /\ pc = "call"
    /\ var \in CallVariants
    /\ in_header = FALSE
    /\ header = <<>>
    /\ lines = <<>>
    /\ vcf_out = <<>>
    /\ ae_dict = None
    /\ exclude = {}
    /\ err = "none"
    /\ site = ""
    /\ ret = <<>>
    /\ arg = <<>>
    /\ a = <<0, 0>>
    /\ b_list = <<>>
    /\ called = <<>>
    /\ params = None
    /\ outf = None

Return(name, args, r) ==
    /\ pc' = "returned"
    /\ site' = name
    /\ arg' = args
    /\ var' = r.var
    /\ ret' = r.ret
    /\ err' = r.exc
    /\ UNCHANGED <<params, outf, in_header, header, lines, vcf_out, ae_dict, exclude, a, b_list, called>>

CallToBndStrings ==
    /\ pc = "call"
    /\ \E fixed_gts \in BOOLEAN :
        \E r \in {to_bnd_strings(var, fixed_gts)} :
            Return("to_bnd_strings", <<var, fixed_gts>>, r)

\* convert(primary), convert(primary, secondary) and convert(None, secondary)
CallConvert ==
    /\ pc = "call"
    /\ \E mode \in {"primary", "both", "secondary"} :
        \E primary \in {IF mode = "secondary" THEN None ELSE var} :
            \E secondary \in {IF mode = "primary" THEN None
                              ELSE IF mode = "both" THEN Mate ELSE var} :
                \E r \in {convert(primary, secondary)} :
                    Return("convert", <<primary, secondary>>, r)

CallSimpleBreakpoints ==
    /\ pc = "call"
    /\ \E r \in {simple_breakpoints(var)} :
        Return("simple_breakpoints", <<var>>, r)

NextCall ==
    \/ CallToBndStrings
    \/ CallConvert
    \/ CallSimpleBreakpoints

SpecCall == InitCall /\ [][NextCall]_vars

(***************************************************************************)
(* SpecOverlap: one call of reciprocal_overlap, or of                      *)
(* collapse_bed_records, on intervals with coordinates in 0..MaxCoord and  *)
(* a b_list of at most MaxFeatures intervals.                              *)
(***************************************************************************)
\* start <= end, as in a BED feature
Intervals == {iv \in (0..MaxCoord) \X (0..MaxCoord) : iv[1] <= iv[2]}

BLists == UNION {[1..n -> Intervals] : n \in 0..MaxFeatures}

InitOverlap ==
    /\ pc = "call"
    /\ a \in Intervals
    /\ b_list \in BLists
    /\ in_header = FALSE
    /\ header = <<>>
    /\ lines = <<>>
    /\ vcf_out = <<>>
    /\ ae_dict = None
    /\ exclude = {}
    /\ var = None
    /\ err = "none"
    /\ site = ""
    /\ ret = Zero
    /\ arg = <<>>
    /\ called = <<>>
    /\ params = None
    /\ outf = None

CallReciprocalOverlap ==
    /\ pc = "call"
    /\ pc' = "returned"
    /\ site' = "reciprocal_overlap"
    /\ ret' = reciprocal_overlap(a, b_list)
    /\ UNCHANGED <<params, outf, in_header, header, lines, vcf_out, ae_dict, exclude, var, err, arg, a,
                   b_list, called>>

\* collapse_bed_records on a non-empty b_list: arg keeps the list as it was
\* passed, b_list becomes the list as the assignments to its records leave it
CallCollapseBedRecords ==
    /\ pc = "call"
    /\ b_list # <<>>
    /\ pc' = "returned"
    /\ site' = "collapse_bed_records"
    /\ arg' = b_list
    /\ \E r \in {collapse_bed_records(b_list, [i \in 1..Len(b_list) |-> i])} :
        /\ ret' = r.collapsed
        /\ b_list' = r.fs
    /\ UNCHANGED <<params, outf, in_header, header, lines, vcf_out, ae_dict, exclude, var, err, a, called>>

NextOverlap ==
    \/ CallReciprocalOverlap
    \/ CallCollapseBedRecords

SpecOverlap == InitOverlap /\ [][NextOverlap]_vars

(***************************************************************************)
(* SpecLowFreq: has_low_freq_depth_support called on, and sv_classify's    *)
(* loop body run on, one autosomal DEL or DUP record whose first samples   *)
(* have every combination of genotype and copy number; the samples after   *)
(* them are not called or hom-ref.                                         *)
(***************************************************************************)
\* the samples whose genotype and copy number vary
FreeSamples == {1, 2, 3}

\* copy numbers 1.5, 2.0 and 3.0
TestCN == {15, 20, 30}

TestGT == {"0/0", "0/1", "1/1", "./."}

LowFreqGenotypes ==
    {[s \in Samples |->
        IF s \in FreeSamples THEN [GT |-> g[s].GT, CN |-> g[s].CN, AB |-> <<>>]
        ELSE [GT |-> rest, CN |-> 20, AB |-> <<>>]] :
     g \in [FreeSamples -> [GT : TestGT, CN : TestCN]], rest \in {"0/0", "./."}}

LowFreqLines ==
    {[Line(1, "1", t, Wide, {}, NoCarrier) EXCEPT !.gts = g] :
        t \in {"DEL", "DUP"}, g \in LowFreqGenotypes}

InitLowFreq ==
    /\ pc = "call"
    /\ arg \in {<<line>> : line \in LowFreqLines}
    /\ exclude \in {{}, {1}}
    /\ var = None
    /\ in_header = FALSE
    /\ header = <<>>
    /\ lines = <<>>
    /\ vcf_out = <<>>
    /\ ae_dict = None
    /\ err = "none"
    /\ site = ""
    /\ ret = FALSE
    /\ a = <<0, 0>>
    /\ b_list = <<>>
    /\ called = <<>>
    /\ params = None
    /\ outf = None

CallLowFreq ==
    /\ pc = "call"
    /\ pc' = "returned"
    /\ site' = "has_low_freq_depth_support"
    /\ var' = Variant(arg[1])
    /\ ret' = has_low_freq_depth_support(Variant(arg[1]), exclude)
    /\ UNCHANGED <<params, outf, in_header, header, lines, vcf_out, ae_dict, exclude, err, arg, a, b_list,
                   called>>

\* the loop body of sv_classify on the record, after the header
ClassifyRecord ==
    /\ pc = "call"
    /\ \E nb \in BOOLEAN : \E r \in {sv_classify_line(arg[1], ae_dict, exclude, var, nb)} :
        /\ pc' = IF r.branch = "crash" THEN "crashed" ELSE "classified"
        /\ outf' = write_diag(outf, arg[1], r, exclude, nb)
        /\ lines' = Append(lines, arg[1])
        /\ vcf_out' = vcf_out \o r.out
        /\ ae_dict' = r.ae
        /\ var' = r.var
        /\ err' = r.exc
        /\ site' = r.site
        /\ called' = r.calls
    /\ UNCHANGED <<params, in_header, header, exclude, ret, arg, a, b_list>>

NextLowFreq ==
    \/ CallLowFreq
    \/ ClassifyRecord

SpecLowFreq == InitLowFreq /\ [][NextLowFreq]_vars

(***************************************************************************)
(* SpecHighFreq: has_high_freq_depth_support called on one autosomal DEL   *)
(* or DUP record, with and without the CN format field, whose first        *)
(* samples have every combination of allele balance and copy number.       *)
(***************************************************************************)
\* allele balances '.', 0 and 0.5
TestAB == {<<>>, <<0>>, <<5>>}

HighFreqGenotypes ==
    {[s \in Samples |->
        IF s \in FreeSamples THEN [GT |-> "0/1", CN |-> g[s].CN, AB |-> g[s].AB]
        ELSE [GT |-> "0/0", CN |-> 20, AB |-> rest]] :
     g \in [FreeSamples -> [AB : TestAB, CN : TestCN]], rest \in {<<>>, <<0>>}}

HighFreqVariants ==
    {[Variant([Line(1, "1", t, Wide, {}, NoCarrier) EXCEPT !.gts = g])
        EXCEPT !.active_formats = f] :
        t \in {"DEL", "DUP"}, g \in HighFreqGenotypes,
        f \in {{"GT", "CN", "AB"}, {"GT", "AB"}}}

InitHighFreq ==
    /\ pc = "call"
    /\ var \in HighFreqVariants
    /\ exclude \in {{}, {1}}
    /\ arg = <<>>
    /\ in_header = FALSE
    /\ header = <<>>
    /\ lines = <<>>
    /\ vcf_out = <<>>
    /\ ae_dict = None
    /\ err = "none"
    /\ site = ""
    /\ ret = FALSE
    /\ a = <<0, 0>>
    /\ b_list = <<>>
    /\ called = <<>>
    /\ params = None
    /\ outf = None

CallHighFreq ==
    /\ pc = "call"
    /\ pc' = "returned"
    /\ site' = "has_high_freq_depth_support"
    /\ called' = IF calls_linregress(var) THEN <<"linregress">> ELSE <<>>
    /\ ret' = has_high_freq_depth_support(var, exclude, slope_threshold, rsquared_threshold)
    /\ UNCHANGED <<params, outf, in_header, header, lines, vcf_out, ae_dict, exclude, var, err, arg, a,
                   b_list>>

NextHighFreq == CallHighFreq

SpecHighFreq == InitHighFreq /\ [][NextHighFreq]_vars

(***************************************************************************)
(* SpecTrim: the trimming of lines 401-403 applied to one group, and then  *)
(* to the group it has left.  arg is the group given to the last           *)
(* application, ret the group it returned.                                 *)
(***************************************************************************)
\* copy numbers 0.4, 0.9, 1.9 and 3.9: log2r -2, -1, 0 and 1
TrimCN == {40, 90, 190, 390}

Groups ==
    UNION {{[i \in 1..n |-> CN_rec(2000, "0/1", cns[i])] : cns \in [1..n -> TrimCN]} :
            n \in 1..MaxGroup}

InitTrim ==
    /\ pc = "start"
    /\ arg \in Groups
    /\ ret = <<>>
    /\ exclude = {}
    /\ var = None
    /\ in_header = FALSE
    /\ header = <<>>
    /\ lines = <<>>
    /\ vcf_out = <<>>
    /\ ae_dict = None
    /\ err = "none"
    /\ site = ""
    /\ a = <<0, 0>>
    /\ b_list = <<>>
    /\ called = <<>>
    /\ params = None
    /\ outf = None

Trim ==
    /\ pc = "start"
    /\ pc' = "trimmed"
    /\ ret' = trim(arg)
    /\ UNCHANGED <<params, outf, in_header, header, lines, vcf_out, ae_dict, exclude, var, err, site, arg,
                   a, b_list, called>>

TrimAgain ==
    /\ pc = "trimmed"
    /\ pc' = "retrimmed"
    /\ arg' = ret
    /\ ret' = trim(ret)
    /\ UNCHANGED <<params, outf, in_header, header, lines, vcf_out, ae_dict, exclude, var, err, site, a,
                   b_list, called>>

NextTrim ==
    \/ Trim
    \/ TrimAgain

SpecTrim == InitTrim /\ [][NextTrim]_vars

(***************************************************************************)
(* SpecOffset: lines 401-410 of calc_params on the rows of one sample's    *)
(* het and hom-alt DEL records of lengths below, at and above 1000 bp.     *)
(* ret is the trimmed data frame df and the small deletions with their     *)
(* offsets, hom-alt first as line 419 appends them.                        *)
(***************************************************************************)
MaxRows == 3

OffsetRows ==
    {CN_rec(svlen, gt, cn) : svlen \in {500, 1000, 2000}, gt \in {"0/1", "1/1"}, cn \in {40, 90}}

InitOffset ==
    /\ pc = "start"
    /\ arg \in UNION {[1..n -> OffsetRows] : n \in 1..MaxRows}
    /\ ret = <<>>
    /\ exclude = {}
    /\ var = None
    /\ in_header = FALSE
    /\ header = <<>>
    /\ lines = <<>>
    /\ vcf_out = <<>>
    /\ ae_dict = None
    /\ err = "none"
    /\ site = ""
    /\ a = <<0, 0>>
    /\ b_list = <<>>
    /\ called = <<>>
    /\ params = None
    /\ outf = None

CalcOffsets ==
    /\ pc = "start"
    /\ pc' = "offsets"
    /\ \E df \in {trim(arg)} :
        ret' = [df |-> df, small_dels |-> small_dels(df, "1/1") \o small_dels(df, "0/1")]
    /\ UNCHANGED <<params, outf, in_header, header, lines, vcf_out, ae_dict, exclude, var, err, site, arg,
                   a, b_list, called>>

NextOffset == CalcOffsets

SpecOffset == InitOffset /\ [][NextOffset]_vars

(***************************************************************************)
(* Properties of sv_classify (checked under Spec).                         *)
(***************************************************************************)
SvType(line) == IF "SVTYPE" \in DOMAIN line.info THEN line.info["SVTYPE"] ELSE "None"

\* the positions of the data lines read so far
DataIdx == {i \in 1..Len(lines) : lines[i].kind = "data"}

\* the ID of the input record an output item was made from
Origin(item) ==
    CASE item.kind = "line" -> item.text.id
      [] item.kind = "var" ->
            IF "EVENT" \in DOMAIN item.info THEN item.info["EVENT"] ELSE item.var_id
      [] OTHER -> "header"

\* what has been written for line i, in output order
OutFor(i) == SelectSeq(vcf_out, LAMBDA item : Origin(item) = lines[i].id)

\* line i has been written exactly once, as the input line itself
WrittenRaw(i) ==
    \E o \in {OutFor(i)} : Len(o) = 1 /\ o[1].kind = "line" /\ o[1].text = lines[i]

\* line i has been written exactly once, as an MEI record
WrittenMei(i) ==
    \E o \in {OutFor(i)} : Len(o) = 1 /\ o[1].kind = "var" /\ o[1].info["SVTYPE"] = "MEI"

\* line i is a DEL that the mobile-element check, run against a configured
\* annotation index, has rewritten as MEI or has failed on
MeiClaimed(i) ==
    /\ SvType(lines[i]) = "DEL"
    /\ ~IsNone(ae_dict)
    /\ \/ WrittenMei(i)
       \/ /\ i = Len(lines)
          /\ pc = "crashed"
          /\ site \in {"annotation_intersect", "sv_classify"}
          /\ OutFor(i) = <<>>

DepthTests == {"has_cn_support_by_nb", "has_low_freq_depth_support",
               "has_high_freq_depth_support"}

Called == {called[k] : k \in 1..Len(called)}

OnSexChrom(i) == lines[i].chrom \in {"X", "Y"}

\* C1 (as stated): every record on chromosome X or Y is written exactly once as
\* the original input line, whatever its SVTYPE, annotation overlap or
\* genotypes, and no depth test is run on it.
C1_SexChromAlwaysRaw ==
    \A i \in DataIdx :
        OnSexChrom(i) =>
            /\ WrittenRaw(i)
            /\ i = Len(lines) => Called \cap DepthTests = {}

\* C1 (amended): every record on chromosome X or Y is written exactly once as
\* the original input line, unless it is a DEL that the mobile-element check,
\* which comes first, rewrites as MEI or fails on; no depth test is run on a
\* record on X or Y in either case.
C1_SexChromRawUnlessMei ==
    \A i \in DataIdx :
        OnSexChrom(i) =>
            /\ WrittenRaw(i) \/ MeiClaimed(i)
            /\ i = Len(lines) => Called \cap DepthTests = {}

\* a DEL on X with carriers has been examined against the annotation index,
\* matched no class, and been passed through
C1_Witness ==
    \E i \in DataIdx :
        /\ OnSexChrom(i)
        /\ SvType(lines[i]) = "DEL"
        /\ ~IsNone(ae_dict)
        /\ WrittenRaw(i)

\* no sample outside the exclude set has a GT other than ./. or 0/0
ZeroPos(i) == \A s \in Samples \ exclude : lines[i].gts[s].GT \in {"./.", "0/0"}

\* C2 (as stated): every record with zero positively-genotyped samples is
\* written exactly once as the original input line, whatever its annotation
\* overlap, copy numbers or chromosome.
C2_ZeroPosAlwaysRaw ==
    \A i \in DataIdx : ZeroPos(i) => WrittenRaw(i)

\* C2 (amended): every record with zero positively-genotyped samples is written
\* exactly once as the original input line, unless it is a DEL that the
\* mobile-element check rewrites as MEI or fails on.
C2_ZeroPosRawUnlessMei ==
    \A i \in DataIdx : ZeroPos(i) => WrittenRaw(i) \/ MeiClaimed(i)

\* an autosomal DEL without carriers has been examined against the annotation
\* index and then passed through by the positive-sample count
C2_Witness ==
    \E i \in DataIdx :
        /\ ZeroPos(i)
        /\ SvType(lines[i]) = "DEL"
        /\ ~OnSexChrom(i)
        /\ ~IsNone(ae_dict)
        /\ WrittenRaw(i)

\* the last line read
LastLine == lines[Len(lines)]

NumPos(line) == Cardinality({s \in Samples \ exclude : line.gts[s].GT \notin {"./.", "0/0"}})

\* the last line read is an autosomal DEL/DUP with a positive sample that the
\* mobile-element check has let through
DepthCase ==
    /\ Len(lines) \in DataIdx
    /\ SvType(LastLine) \in {"DEL", "DUP"}
    /\ ~OnSexChrom(Len(lines))
    /\ NumPos(LastLine) > 0
    /\ ~MeiClaimed(Len(lines))

\* the test sv_classify is to choose for a record
ChosenTest(line) ==
    IF NumPos(line) < 10 THEN "has_low_freq_depth_support" ELSE "has_high_freq_depth_support"

\* what the chosen test answers for a record
ChosenTestSupports(line) ==
    IF NumPos(line) < 10 THEN has_low_freq_depth_support(Variant(line), exclude)
    ELSE has_high_freq_depth_support(Variant(line), exclude, slope_threshold,
                                     rsquared_threshold)

\* line i has been written as the two lines to_bnd_strings returns, mate 1 first
WrittenBnd(i) ==
    \E o \in {OutFor(i)} : \E b \in {to_bnd_strings(Variant(lines[i]), TRUE)} :
        /\ b.exc = "none"
        /\ Len(o) = 2
        /\ o[1] = b.ret[1] /\ o[1].var_id = lines[i].id \o "_1"
        /\ o[2] = b.ret[2] /\ o[2].var_id = lines[i].id \o "_2"

\* C3: for an autosomal DEL/DUP record that is not rewritten as MEI and has
\* n > 0 positive samples, the only depth test sv_classify runs is the
\* low-frequency test when n < 10 and the high-frequency test when n >= 10; when
\* the record is processed without an exception the test is run, and the output
\* for the record is the original line alone if the test returns support, and
\* otherwise the two lines returned by to_bnd_strings, mate 1 then mate 2, and
\* not the original line; when an exception ends the run nothing is written
\* for the record.
C3_TestChoiceAndOutcome ==
    DepthCase =>
        /\ Called \cap {"has_low_freq_depth_support", "has_high_freq_depth_support"}
                \subseteq {ChosenTest(LastLine)}
        /\ pc # "crashed" =>
            /\ ChosenTest(LastLine) \in Called
            /\ IF ChosenTestSupports(LastLine) THEN WrittenRaw(Len(lines))
               ELSE WrittenBnd(Len(lines))
        /\ pc = "crashed" => OutFor(Len(lines)) = <<>>

\* a DUP with exactly ten positive samples has gone to the high-frequency test,
\* found no support and been written as two breakends
C3_Witness ==
    /\ DepthCase
    /\ NumPos(LastLine) = 10
    /\ "has_high_freq_depth_support" \in Called
    /\ WrittenBnd(Len(lines))

HeaderCount == Cardinality({j \in 1..Len(vcf_out) : vcf_out[j].kind = "header"})

\* C4: for every input stream, one with header lines but no data line
\* included, the header is written exactly once, before any record line: it
\* is never written twice, no record precedes it, and when the input that
\* had header lines has been read to its end it has been written.
C4_HeaderOnce ==
    /\ HeaderCount <= 1
    /\ \A j \in 1..Len(vcf_out) : vcf_out[j].kind # "header" => vcf_out[1].kind = "header"
    /\ (pc = "done" /\ header # <<>>) => HeaderCount = 1

\* the records written, in output order
Records == SelectSeq(vcf_out, LAMBDA item : item.kind # "header")

\* the position in the input of the line an output item was made from
InputPos(item) == CHOOSE i \in 1..Len(lines) : lines[i].id = Origin(item)

\* C5: a data line whose SVTYPE is not DEL or DUP (a line with no SVTYPE key
\* included) is written unchanged exactly once; the records written come from
\* the lines read, in input order, none twice; and every data line that
\* sv_classify has finished with has its output.
C5_SkipUnchangedInOrder ==
    /\ \A i \in DataIdx : SvType(lines[i]) \notin {"DEL", "DUP"} => WrittenRaw(i)
    /\ \A j \in 1..Len(Records) : \E i \in DataIdx : lines[i].id = Origin(Records[j])
    /\ \A j, k \in 1..Len(Records) :
        j < k => /\ InputPos(Records[j]) <= InputPos(Records[k])
                 /\ Records[j] # Records[k]
    /\ \A i \in DataIdx : OutFor(i) # <<>> \/ (i = Len(lines) /\ pc = "crashed")

\* a line without SVTYPE was passed through and the DUP after it was rewritten
\* as two breakends
C5_Witness ==
    /\ Len(lines) = 2
    /\ DataIdx = {1, 2}
    /\ SvType(lines[1]) = "None"
    /\ WrittenRaw(1)
    /\ Len(OutFor(2)) = 2

\* the INFO fields to_bnd_strings reads besides SVTYPE
BndFields == {"END", "CIPOS", "CIEND", "CIPOS95", "CIEND95"}

\* C8: when END, CIPOS, CIEND, CIPOS95 or CIEND95 is absent from the variant
\* given to to_bnd_strings, the call fails with KeyError, the variant is as
\* it was before the call (id, pos, alt, info), and sv_classify writes no line
\* for the record.
C8_MissingFieldKeyError ==
    (/\ Len(lines) \in DataIdx
     /\ "to_bnd_strings" \in Called
     /\ ~(BndFields \subseteq DOMAIN LastLine.info))
    => /\ pc = "crashed"
       /\ site = "to_bnd_strings"
       /\ err = "KeyError"
       /\ var = Variant(LastLine)
       /\ OutFor(Len(lines)) = <<>>

\* to_bnd_strings has been given a DUP without CIPOS95 and has raised
C8_Witness ==
    /\ Len(lines) \in DataIdx
    /\ pc = "crashed"
    /\ site = "to_bnd_strings"
    /\ SvType(LastLine) = "DUP"
    /\ "CIPOS95" \notin DOMAIN LastLine.info

(***************************************************************************)
(* Properties of to_bnd_strings and of the converter (checked under        *)
(* SpecCall).                                                              *)
(***************************************************************************)
\* to_bnd_strings has returned its two records
BndReturned == pc = "returned" /\ site = "to_bnd_strings" /\ err = "none"

\* to_bnd_strings was given a variant with every INFO field it uses
BndComplete ==
    /\ pc = "returned"
    /\ site = "to_bnd_strings"
    /\ BndFields \cup {"SVTYPE", "SVLEN"} \subseteq DOMAIN arg[1].info

\* C6: to_bnd_strings on a variant with chromosome c, position p, END e and id
\* x returns, for a DEL, mate 1 with ALT N[c:e[ and mate 2 with ALT ]c:p]N, and
\* for any other type mate 1 with ALT ]c:e]N and mate 2 with ALT N[c:p[; both
\* mates have SVTYPE=BND and EVENT=x, and SECONDARY is set on mate 2 only.
C6_BndAltAndTags ==
    /\ BndComplete => BndReturned
    /\ BndReturned =>
        \E c \in {arg[1].chrom} : \E p \in {Str(arg[1].pos)} :
        \E e \in {Str(arg[1].info["END"])} : \E x \in {arg[1].var_id} :
            /\ Len(ret) = 2
            /\ IF arg[1].info["SVTYPE"] = "DEL"
               THEN /\ ret[1].alt = <<"N", "[", c, ":", e, "[">>
                    /\ ret[2].alt = <<"]", c, ":", p, "]", "N">>
               ELSE /\ ret[1].alt = <<"]", c, ":", e, "]", "N">>
                    /\ ret[2].alt = <<"N", "[", c, ":", p, "[">>
            /\ \A m \in {1, 2} : ret[m].info["SVTYPE"] = "BND" /\ ret[m].info["EVENT"] = x
            /\ "SECONDARY" \notin DOMAIN ret[1].info
            /\ "SECONDARY" \in DOMAIN ret[2].info /\ ret[2].info["SECONDARY"] = TRUE

\* to_bnd_strings has rewritten a DUP
C6_Witness ==
    /\ BndReturned
    /\ arg[1].info["SVTYPE"] = "DUP"
    /\ ret[1].alt[1] = "]"

\* C7: to_bnd_strings on a variant with id x returns two records: mate 1 has
\* id x_1, MATEID x_2 and the original POS, CIPOS, CIEND, CIPOS95 and CIEND95;
\* mate 2 has id x_2, MATEID x_1, POS equal to the original END, CIPOS and
\* CIEND swapped and CIPOS95 and CIEND95 swapped; neither has SVLEN or END.
C7_BndMates ==
    BndReturned =>
        \E x \in {arg[1].var_id} : \E i0 \in {arg[1].info} :
            /\ Len(ret) = 2
            /\ ret[1].var_id = x \o "_1" /\ ret[1].info["MATEID"] = x \o "_2"
            /\ ret[1].pos = arg[1].pos
            /\ \A k \in {"CIPOS", "CIEND", "CIPOS95", "CIEND95"} : ret[1].info[k] = i0[k]
            /\ ret[2].var_id = x \o "_2" /\ ret[2].info["MATEID"] = x \o "_1"
            /\ ret[2].pos = i0["END"]
            /\ ret[2].info["CIPOS"] = i0["CIEND"] /\ ret[2].info["CIEND"] = i0["CIPOS"]
            /\ ret[2].info["CIPOS95"] = i0["CIEND95"]
            /\ ret[2].info["CIEND95"] = i0["CIPOS95"]
            /\ \A m \in {1, 2} : {"SVLEN", "END"} \cap DOMAIN ret[m].info = {}

\* to_bnd_strings has rewritten a DEL from 100 to 200: mate 2 is at 200
C7_Witness ==
    /\ BndReturned
    /\ arg[1].info["SVTYPE"] = "DEL"
    /\ ret[2].pos = 200
    /\ ret[2].info["CIPOS"] # arg[1].info["CIPOS"]

\* the Variant convert works on
ConvertVariant == IF IsNone(arg[1]) THEN arg[2] ELSE arg[1]

\* a call during BEDPE conversion that lacks its required INFO field
ConversionLacksField ==
    /\ pc = "returned"
    /\ \/ site = "convert" /\ "SVTYPE" \notin DOMAIN ConvertVariant.info
       \/ site = "simple_breakpoints" /\ "END" \notin DOMAIN arg[1].info

\* a call of to_bnd_strings without END or without SVLEN
RewriteLacksField ==
    /\ pc = "returned"
    /\ site = "to_bnd_strings"
    /\ ~({"END", "SVLEN"} \subseteq DOMAIN arg[1].info)

\* C9 (as stated): a missing required INFO field is signalled as a value error
\* both during BEDPE conversion (convert without SVTYPE, simple_breakpoints
\* without END) and during breakend rewriting (to_bnd_strings without END or
\* SVLEN).
C9_ValueErrorBothPaths ==
    ConversionLacksField \/ RewriteLacksField => err = "ValueError"

\* C9 (amended): a missing required INFO field is signalled as a value error
\* during BEDPE conversion (convert without SVTYPE, simple_breakpoints without
\* END); during breakend rewriting (to_bnd_strings without END or SVLEN) it is
\* signalled as the key-lookup error.
C9_ValueErrorInConversionOnly ==
    /\ ConversionLacksField => err = "ValueError"
    /\ RewriteLacksField => err = "KeyError"

\* to_bnd_strings was given a variant with END but without SVLEN and raised
\* KeyError, and so did not signal a value error
C9_Witness ==
    /\ RewriteLacksField
    /\ "END" \in DOMAIN arg[1].info
    /\ err = "KeyError"

(***************************************************************************)
(* Properties of reciprocal_overlap (checked under SpecOverlap).           *)
(***************************************************************************)
\* two intervals without a common point
Disjoint(x, y) == x[2] < y[1] \/ y[2] < x[1]

\* C10: reciprocal_overlap(a, b_list) is 1.0 when b_list is the single interval
\* a and a has a width, 0.0 when b_list is a single interval disjoint from a,
\* and 0 when a has no width or the widths of b_list sum to zero.
C10_OverlapValues ==
    (pc = "returned" /\ site = "reciprocal_overlap") =>
        /\ (b_list = <<a>> /\ a[1] # a[2]) => FracEq(ret, One)
        /\ (Len(b_list) = 1 /\ Disjoint(a, b_list[1])) => FracEq(ret, Zero)
        /\ (a[1] = a[2] \/ \A i \in 1..Len(b_list) : b_list[i][1] = b_list[i][2])
                => FracEq(ret, Zero)

(***************************************************************************)
(* Properties of has_low_freq_depth_support (checked under SpecLowFreq).   *)
(***************************************************************************)
\* the record of the call
TestRecord == arg[1]

\* the copy numbers, in tenths, of the samples outside the exclude set whose
\* genotype is in gts, as a bag: sample |-> copy number
CnOf(gts) ==
    [s \in {t \in Samples \ exclude : TestRecord.gts[t].GT \in gts} |-> TestRecord.gts[s].CN]

\* twice the median of the values of a non-empty function f: the least plus
\* the greatest of the values that have at most half of the samples below
\* them and at most half above them
MedianTwice(f) ==
    LET balanced == {x \in {f[s] : s \in DOMAIN f} :
                        /\ 2 * Cardinality({s \in DOMAIN f : f[s] < x}) <= Cardinality(DOMAIN f)
                        /\ 2 * Cardinality({s \in DOMAIN f : f[s] > x}) <= Cardinality(DOMAIN f)}
    IN  Only({lo + hi : lo \in {x \in balanced : \A y \in balanced : x <= y},
                        hi \in {x \in balanced : \A y \in balanced : x >= y}})

\* four times the median absolute deviation of the values of f
MadFourTimes(f) ==
    Only({MedianTwice([s \in DOMAIN f |-> Abs(2 * f[s] - m2)]) : m2 \in {MedianTwice(f)}})

LowFreqReturned == pc = "returned" /\ site = "has_low_freq_depth_support"

\* C11: has_low_freq_depth_support returns False, and does not raise, whenever
\* no sample outside the exclude set is 0/0 or none is 0/1 or 1/1, whatever
\* the copy numbers are.
C11_NoBaselineNoSupport ==
    (/\ LowFreqReturned
     /\ DOMAIN CnOf({"0/0"}) = {} \/ DOMAIN CnOf({"0/1", "1/1"}) = {})
    => err = "none" /\ ret = FALSE

\* a DEL whose only carrier has lost a whole copy, with no hom-ref sample to
\* compare it with, has been refused
C11_Witness ==
    /\ LowFreqReturned
    /\ DOMAIN CnOf({"0/0"}) = {}
    /\ \E s \in DOMAIN CnOf({"0/1", "1/1"}) : TestRecord.gts[s].CN = 15
    /\ SvType(TestRecord) = "DEL"
    /\ ret = FALSE

\* the non-ref samples outside the exclude set whose copy number departs from
\* the hom-ref median, in the direction of the SV type, by more than twice
\* the hom-ref MAD and by more than 0.5
Departing ==
    LET departing(non, m2, mad4) ==
            {s \in DOMAIN non :
                \E r2 \in {IF SvType(TestRecord) = "DEL" THEN m2 - 2 * non[s]
                           ELSE 2 * non[s] - m2} :
                    r2 > mad4 /\ r2 > 10}
    IN  Only({departing(non, m2, mad4) :
                non \in {CnOf({"0/1", "1/1"})},
                m2 \in {MedianTwice(CnOf({"0/0"}))},
                mad4 \in {MadFourTimes(CnOf({"0/0"}))}})

ComparableSamples == DOMAIN CnOf({"0/0"}) # {} /\ DOMAIN CnOf({"0/1", "1/1"}) # {}

\* C12: with a hom-ref and a non-ref sample outside the exclude set, the
\* low-frequency test reports support exactly when strictly more than half of
\* the non-ref samples have a residual above 2*MAD and above 0.5; a record
\* whose non-ref copy numbers all equal the hom-ref median is written by
\* sv_classify as its two breakend records.
C12_QuorumOfResiduals ==
    /\ (LowFreqReturned /\ ComparableSamples)
        => (ret = (2 * Cardinality(Departing) > Cardinality(DOMAIN CnOf({"0/1", "1/1"}))))
    /\ (/\ pc = "classified"
        /\ ComparableSamples
        /\ \A s \in DOMAIN CnOf({"0/1", "1/1"}) :
                2 * TestRecord.gts[s].CN = MedianTwice(CnOf({"0/0"})))
        => WrittenBnd(1)

\* exactly half of the non-ref samples depart from the baseline, and the test
\* has reported no support
C12_Witness ==
    /\ LowFreqReturned
    /\ ComparableSamples
    /\ Cardinality(DOMAIN CnOf({"0/1", "1/1"})) = 2
    /\ Cardinality(Departing) = 1
    /\ ret = FALSE

\* a record whose carriers sit on the baseline has been split into breakends
C12_WitnessBnd ==
    /\ pc = "classified"
    /\ ComparableSamples
    /\ \A s \in DOMAIN CnOf({"0/1", "1/1"}) :
            2 * TestRecord.gts[s].CN = MedianTwice(CnOf({"0/0"}))
    /\ WrittenBnd(1)

\* the test has reported support with a non-zero MAD of the baseline
C12_WitnessSupport ==
    /\ LowFreqReturned
    /\ ComparableSamples
    /\ MadFourTimes(CnOf({"0/0"})) > 0
    /\ ret = TRUE

(***************************************************************************)
(* Properties of has_high_freq_depth_support (checked under SpecHighFreq). *)
(***************************************************************************)
HighFreqReturned == pc = "returned" /\ site = "has_high_freq_depth_support"

\* the samples whose allele balance is not '.'
WithAB == {s \in Samples : var.gts[s].AB # <<>>}

DistinctAB == Cardinality({var.gts[s].AB : s \in WithAB})

DistinctCN == Cardinality({var.gts[s].CN : s \in WithAB})

\* C13: has_high_freq_depth_support returns False without an error, and
\* without computing the regression, when the record has no CN format field
\* or when the samples with an allele balance all have the same allele
\* balance or all have the same copy number.
C13_UniformNoSupport ==
    (/\ HighFreqReturned
     /\ "CN" \notin var.active_formats \/ DistinctAB <= 1 \/ DistinctCN <= 1)
    => ret = FALSE /\ err = "none" /\ called = <<>>

\* the allele balances vary and the copy numbers do not: no regression
C13_Witness ==
    /\ HighFreqReturned
    /\ "CN" \in var.active_formats
    /\ DistinctAB > 1 /\ DistinctCN = 1
    /\ ret = FALSE /\ called = <<>>

\* both vary, the regression is computed and the variant is supported
C13_WitnessRegression ==
    /\ HighFreqReturned
    /\ DistinctAB > 1 /\ DistinctCN > 1
    /\ called = <<"linregress">> /\ ret = TRUE

\* every sample's allele balance is missing
C13_WitnessAllMissing ==
    /\ HighFreqReturned
    /\ "CN" \in var.active_formats
    /\ WithAB = {}
    /\ ret = FALSE

(***************************************************************************)
(* Properties of the quantile trimming (checked under SpecTrim).           *)
(***************************************************************************)
\* the log2r values of a group
Log2rOf(g) == {g[i].log2r : i \in 1..Len(g)}

\* the rows of g whose log2r no other row of g has
Alone(g, x) == Cardinality({i \in 1..Len(g) : g[i].log2r = x}) = 1

RECURSIVE RowsAt(_, _, _)
\* the rows i, i+1, ... of g whose position is in keep, in the order of g
RowsAt(g, keep, i) ==
    IF i > Len(g) THEN <<>>
    ELSE (IF i \in keep THEN <<g[i]>> ELSE <<>>) \o RowsAt(g, keep, i + 1)

\* C15 (as stated): the quantile trimming is idempotent: applied to a group
\* it has already trimmed, it returns that group unchanged.
C15_TrimIdempotent == pc = "retrimmed" => ret = arg

\* C15 (amended): applied to an already trimmed group, the trimming adds no
\* row and keeps the order; it returns the group unchanged when its log2r
\* values are all equal, and removes the row with the smallest or the largest
\* log2r when the group has two or more rows and that value occurs once.
C15_TrimAgainShrinks ==
    pc = "retrimmed" =>
        /\ \E keep \in SUBSET (1..Len(arg)) : ret = RowsAt(arg, keep, 1)
        /\ Cardinality(Log2rOf(arg)) <= 1 => ret = arg
        /\ \A x \in Log2rOf(arg) :
                (/\ Len(arg) >= 2
                 /\ Alone(arg, x)
                 /\ (\A y \in Log2rOf(arg) : x <= y) \/ (\A y \in Log2rOf(arg) : x >= y))
                => x \notin Log2rOf(ret)

\* a trimmed group of two rows has been trimmed again, to nothing
C15_Witness ==
    /\ pc = "retrimmed"
    /\ Len(arg) = 2
    /\ arg[1].log2r # arg[2].log2r
    /\ ret = <<>>

(***************************************************************************)
(* Properties of the small-deletion offsets (checked under SpecOffset).    *)
(***************************************************************************)
\* the log2r values of the trimmed rows of genotype gt that are at least
\* 1000 bp long
ReferenceLog2r(gt) ==
    Only({[i \in 1..Len(g) |-> g[i].log2r] \o <<>> :
            g \in {SelectSeq(ret.df, LAMBDA row : row.GT = gt /\ row.svlen >= 1000)}})

\* C17: the offset of a small (< 1000 bp) het or hom-alt DEL is its log2r
\* minus the mean log2r of the trimmed DEL rows of the same genotype whose
\* length is 1000 bp or more, a DEL of exactly 1000 bp included.
C17_OffsetFromAtLeast1000 ==
    pc = "offsets" =>
        \A i \in 1..Len(ret.small_dels) :
            \E small \in {ret.small_dels[i]} :
            \E reference \in {ReferenceLog2r(small.row.GT)} :
                Len(reference) > 0 =>
                    /\ small.offset # NaN
                    /\ FracEq(small.offset,
                              Frac(small.row.log2r * Len(reference) - SumSeq(reference),
                                   Len(reference)))

(***************************************************************************)
(* Properties of collapse_bed_records (checked under SpecOverlap).         *)
(***************************************************************************)
\* the positions a list of [start, end) intervals covers
Covered(ivs) == UNION {ivs[i][1]..(ivs[i][2] - 1) : i \in 1..Len(ivs)}

CollapseReturned == pc = "returned" /\ site = "collapse_bed_records"

\* C19: for every non-empty list of intervals with start <= end,
\* collapse_bed_records returns pairwise non-overlapping intervals whose union
\* covers exactly the positions the input intervals cover.
C19_CollapseKeepsUnion ==
    CollapseReturned =>
        /\ \A i, j \in 1..Len(ret) :
                i # j => (ret[i][1]..(ret[i][2] - 1)) \cap (ret[j][1]..(ret[j][2] - 1)) = {}
        /\ Covered(ret) = Covered(arg)

(***************************************************************************)
(* Properties of the mobile-element check (checked under Spec).            *)
(***************************************************************************)
\* a data line is read in this step
ReadsDataLine ==
    /\ pc = "run"
    /\ Len(lines') = Len(lines) + 1
    /\ lines'[Len(lines')].kind = "data"

\* the class annotation_intersect returns for a record against the index as
\* it is before the step, None when it returns none or raises
ClassFound(line) ==
    Only({IF hit.exc = "none" THEN hit.ret ELSE None :
            hit \in {annotation_intersect(Variant(line), ae_dict, f_overlap)}})

\* the ALT of the MEI record of a class: ME: before SINE, LINE and SVA classes
MeiAlt(class) ==
    <<"<", "DEL", ":">>
    \o (IF class[1] \in {"SINE", "LINE"} \/ \E k \in 1..Len(class) : class[k] = "SVA"
        THEN <<"ME:">> ELSE <<>>)
    \o class \o <<">">>

\* line i has left a record with SVTYPE=MEI in the output
SomeMei(i) ==
    \E k \in 1..Len(vcf_out) :
        /\ vcf_out[k].kind = "var"
        /\ Origin(vcf_out[k]) = lines[i].id
        /\ vcf_out[k].info["SVTYPE"] = "MEI"

\* C16: a DEL for which annotation_intersect finds a class is written as
\* exactly one record with SVTYPE=MEI and ALT <DEL:class> (ME: before the
\* class for SINE, LINE and SVA), with no depth test and no breakend rewrite;
\* a DUP, and any record when there is no annotation index, is never
\* rewritten as MEI.
C16_MeiRewriteOfDel ==
    [][ReadsDataLine =>
        \E line \in {lines'[Len(lines')]} :
            IF SvType(line) = "DEL" /\ ~IsNone(ae_dict) /\ ~IsNone(ClassFound(line))
            THEN /\ WrittenMei(Len(lines))'
                 /\ OutFor(Len(lines))'[1].alt = MeiAlt(ClassFound(line).class)
                 /\ (Called \cap DepthTests = {})'
            ELSE (SvType(line) # "DEL" \/ IsNone(ae_dict)) => ~SomeMei(Len(lines))'
    ]_vars

\* C16, apart from the step that raises
C16_MeiRewriteUnlessRaise ==
    [][(ReadsDataLine /\ pc' # "crashed") =>
        \E line \in {lines'[Len(lines')]} :
            IF SvType(line) = "DEL" /\ ~IsNone(ae_dict) /\ ~IsNone(ClassFound(line))
            THEN /\ WrittenMei(Len(lines))'
                 /\ OutFor(Len(lines))'[1].alt = MeiAlt(ClassFound(line).class)
                 /\ (Called \cap DepthTests = {})'
            ELSE (SvType(line) # "DEL" \/ IsNone(ae_dict)) => ~SomeMei(Len(lines))'
    ]_vars

(***************************************************************************)
(* Properties of annotation_intersect on the index (checked under Spec).   *)
(***************************************************************************)
\* the class annotation_intersect returns for a record against the index as
\* main loaded it
ClassFoundAsLoaded(line) ==
    Only({IF hit.exc = "none" THEN hit.ret ELSE None :
            hit \in {annotation_intersect(Variant(line), Annotations, f_overlap)}})

\* C18: annotation_intersect, collapse_bed_records included, leaves ae_dict
\* as it was, and what it returns for a record does not depend on the records
\* read before it.
C18_IndexUnchanged ==
    [][(ReadsDataLine /\ ~IsNone(ae_dict)) =>
        /\ ae_dict' = ae_dict
        /\ \E line \in {lines'[Len(lines')]} :
                SvType(line) = "DEL" => ClassFound(line) = ClassFoundAsLoaded(line)
    ]_vars

\* the second part of C18 alone
C18_ResultIndependent ==
    [][(ReadsDataLine /\ ~IsNone(ae_dict)) =>
        \E line \in {lines'[Len(lines')]} :
            SvType(line) = "DEL" => ClassFound(line) = ClassFoundAsLoaded(line)
    ]_vars

(***************************************************************************)
(* Properties of main (checked under SpecMain).                            *)
(***************************************************************************)
\* C14: params, het_del_fit and hom_del_fit are what calc_params made of the
\* training set before the first line of the candidate stream is read, and
\* no step of sv_classify, depth tests included, changes them afterwards.
C14_ModelFixedBeforeRecords ==
    /\ [](lines # <<>> => (pc # "start" /\ params = calc_params(arg)))
    /\ [][pc # "start" => params' = params]_vars

\* a DEL has been through has_cn_support_by_nb and a depth test, and the model
\* with its fit to a small het deletion is as calc_params returned it
C14_Witness ==
    /\ pc = "run"
    /\ lines # <<>>
    /\ LastLine.kind = "data"
    /\ SvType(LastLine) = "DEL"
    /\ "has_cn_support_by_nb" \in Called
    /\ params = calc_params(arg)
    /\ params.het_del_fit # <<>>

\* C20: what has_cn_support_by_nb returns has no influence on the VCF output:
\* had it returned the other value for the record read, the same lines would
\* have been written; its value goes to the diagnostic row only.
C20_NbOutOfOutput ==
    [][ReadsDataLine =>
        \A nb \in BOOLEAN :
            \E r \in {sv_classify_line(lines'[Len(lines')], ae_dict, exclude, var, nb)} :
                /\ vcf_out' = vcf_out \o (IF in_header THEN <<get_header(header)>> ELSE <<>>)
                                      \o r.out
                /\ pc' = IF r.branch = "crash" THEN "crashed" ELSE "run"
    ]_vars

\* has_cn_support_by_nb has supported a record, as its diagnostic row says,
\* that the low-frequency test has not, and the record is rewritten as breakends
C20_Witness ==
    /\ pc = "run"
    /\ lines # <<>>
    /\ outf.rows # <<>>
    /\ outf.rows[Len(outf.rows)].nb_support
    /\ ~outf.rows[Len(outf.rows)].low_freq_support
    /\ "has_low_freq_depth_support" \in Called
    /\ WrittenBnd(Len(lines))

====
